---- MODULE Spec2Model ----
(***************************************************************************)
(* Smart-Imaginer: the quota-governed image generation workflow.           *)
(*                                                                         *)
(*   src/utils/rateLimit.ts   the persisted daily generation counter       *)
(*   src/App.tsx              the workflow (generate / retry / extend /    *)
(*                            reset / upload / history)                    *)
(*   src/unnamed/part_000     the Gemini service calls                     *)
(*                                                                         *)
(* Text is a sequence of tokens (strings); the delimiters the code looks   *)
(* for (":", ";", ",", whitespace) are tokens of their own.  Time is a     *)
(* clock of ticks, TicksPerDay of them to a day.                           *)
(***************************************************************************)
EXTENDS Integers, Sequences, FiniteSets, TLC

VARIABLES
    now,                  \* the instant new Date() / Date.now() returns (UTC ticks)
    tz,                   \* the client's timezone offset (local = UTC + tz), in ticks
    storage,              \* localStorage's item under RATE_LIMIT_KEY
    fault,                \* what localStorage refuses in this browser
    results,              \* the GeminiImageResponse values the service returns
    originalImage,        \* App state (useState), src/App.tsx:17-27
    generatedImage,
    prompt,
    negativePrompt,
    aspectRatio,
    isLoading,
    error,
    rating,
    history,
    remainingGenerations,
    pending,              \* the service calls awaiting their response, oldest first
    fileReading,          \* the upload whose fileToBase64 is awaited, or NoFile
    dispatched,           \* the number of service calls started so far
    lastRequest,          \* the request of the service call started last
    doneToday,            \* the number of successful generations on the tracker's day
    ret                   \* the last direct call of the tracker and what it returned

trackerVars == <<now, tz, storage, fault, results>>
envVars     == <<now, tz, storage, fault, results, ret>>
formVars    == <<prompt, negativePrompt, aspectRatio>>
imageVars   == <<originalImage, generatedImage>>
appVars     == <<originalImage, generatedImage, prompt, negativePrompt, aspectRatio,
                 isLoading, error, rating, history, remainingGenerations,
                 pending, fileReading, dispatched, lastRequest>>
vars        == <<now, tz, storage, fault, results, originalImage, generatedImage, prompt,
                 negativePrompt, aspectRatio, isLoading, error, rating, history,
                 remainingGenerations, pending, fileReading, dispatched, lastRequest,
                 doneToday, ret>>

---------------------------------------------------------------------------
(* Bounds of the model *)

MaxNow      == 2          \* the clock runs over the instants 1..MaxNow
TicksPerDay == 2          \* clock ticks in a calendar day
MaxDispatch == 2          \* service calls started in one behaviour

(* Program constants *)

MAX_GENERATIONS_PER_DAY == 20

Instants  == 1..MaxNow
TzOffsets == {-1, 0, 1}

---------------------------------------------------------------------------
(* Time *)

\* new Date().toISOString().split('T')[0]: the UTC calendar date of the instant.
\* A date string is modelled by the number of its day.
getTodayString(t) == t \div TicksPerDay

\* The calendar date of instant t on the client's wall clock.
LocalDay(t, z) == (t + z) \div TicksPerDay

---------------------------------------------------------------------------
(* localStorage and JSON *)

\* What localStorage.getItem(RATE_LIMIT_KEY) can hold.  kind:
\*   "absent"   no item (getItem returns null)
\*   "empty"    the empty string
\*   "garbage"  text that is no JSON (JSON.parse throws SyntaxError)
\*   "null"     the JSON text null
\*   "scalar"   a JSON number
\*   "record"   the JSON text of {date, count}
Item(k, d, c) == [kind |-> k, date |-> d, count |-> c]
AbsentItem    == Item("absent", 0, 0)
CorruptKinds  == {"garbage", "null", "scalar"}

\* JSON.stringify of a RateLimitData
JSONstringify(data) == Item("record", data.date, data.count)

\* JSON.parse: throws on text that is no JSON, else the value
JSONparse(item) ==
    IF item.kind = "garbage"
    THEN [threw |-> TRUE, val |-> item]
    ELSE [threw |-> FALSE, val |-> item]

\* the records incrementGenerationCount can have written
WrittenDays  == 0 .. (getTodayString(MaxNow) + 1)
WrittenItems == { Item("record", d, c) : d \in WrittenDays,
                                         c \in 1..MAX_GENERATIONS_PER_DAY }
UnreadableItems == { Item(k, 0, 0) : k \in {"absent", "empty"} \cup CorruptKinds }

---------------------------------------------------------------------------
(* src/utils/rateLimit.ts *)

Fresh(t) == [date |-> getTodayString(t), count |-> 0]

\* The try block of getRateLimitData (lines 16-23): whether it threw, whether
\* it returned, and what.
ReadStored(item, t) ==
    IF fault = "access"                                       \* getItem throws
    THEN [threw |-> TRUE, returned |-> FALSE, val |-> Fresh(t)]
    ELSE IF item.kind \in {"absent", "empty"}                 \* if (data): falsy
    THEN [threw |-> FALSE, returned |-> FALSE, val |-> Fresh(t)]
    ELSE LET p == JSONparse(item) IN
         IF p.threw
         THEN [threw |-> TRUE, returned |-> FALSE, val |-> Fresh(t)]
         ELSE IF p.val.kind = "null"                          \* null.date: TypeError
         THEN [threw |-> TRUE, returned |-> FALSE, val |-> Fresh(t)]
         ELSE IF p.val.kind = "record" /\ p.val.date = getTodayString(t)
         THEN [threw |-> FALSE, returned |-> TRUE,
               val |-> [date |-> p.val.date, count |-> p.val.count]]
         ELSE [threw |-> FALSE, returned |-> FALSE, val |-> Fresh(t)]

\* getRateLimitData without its try/catch
getRateLimitData_nocatch(item, t) ==
    LET r == ReadStored(item, t) IN [threw |-> r.threw, val |-> r.val]

\* getRateLimitData trusting the stored record whatever its date
getRateLimitData_anyday(item, t) ==
    IF item.kind = "record"
    THEN [threw |-> FALSE, val |-> [date |-> item.date, count |-> item.count]]
    ELSE [threw |-> FALSE, val |-> Fresh(t)]

\* getRateLimitData: the stored record when it is today's, else a fresh one;
\* the catch swallows whatever the try block threw.
getRateLimitData(item, t) ==
    LET r == ReadStored(item, t) IN
    IF r.returned THEN [threw |-> FALSE, val |-> r.val]
                  ELSE [threw |-> FALSE, val |-> Fresh(t)]

\* The try block of setRateLimitData (lines 32-33): whether setItem threw, and
\* the item the store holds afterwards.
WriteStored(item, data) ==
    IF fault \in {"write", "access"}
    THEN [threw |-> TRUE,  item |-> item]
    ELSE [threw |-> FALSE, item |-> JSONstringify(data)]

\* setRateLimitData without its try/catch
setRateLimitData_nocatch(item, data) == WriteStored(item, data)

\* setRateLimitData: the catch swallows what setItem threw
setRateLimitData(item, data) ==
    [threw |-> FALSE, item |-> WriteStored(item, data).item]

canGenerate_atmost(item, t) ==
    LET d == getRateLimitData(item, t) IN
    [threw |-> d.threw, ret |-> d.val.count <= MAX_GENERATIONS_PER_DAY]

canGenerate(item, t) ==
    LET d == getRateLimitData(item, t) IN
    [threw |-> d.threw, ret |-> d.val.count < MAX_GENERATIONS_PER_DAY]

\* incrementGenerationCount without the guard of line 46
incrementGenerationCount_unguarded(item, t) ==
    LET d == getRateLimitData(item, t)
        w == setRateLimitData(item, [d.val EXCEPT !.count = @ + 1])
    IN IF d.threw THEN [threw |-> TRUE, item |-> item] ELSE w

\* incrementGenerationCount: whether it threw, and the item it leaves
incrementGenerationCount(item, t) ==
    LET d == getRateLimitData(item, t)
        w == setRateLimitData(item, [d.val EXCEPT !.count = @ + 1])
    IN IF d.threw THEN [threw |-> TRUE, item |-> item]
       ELSE IF d.val.count < MAX_GENERATIONS_PER_DAY THEN w
       ELSE [threw |-> FALSE, item |-> item]

\* getRemainingGenerations without the Math.max of line 54
getRemainingGenerations_nofloor(item, t) ==
    LET d == getRateLimitData(item, t) IN
    [threw |-> d.threw, ret |-> MAX_GENERATIONS_PER_DAY - d.val.count]

getRemainingGenerations(item, t) ==
    LET d         == getRateLimitData(item, t)
        remaining == MAX_GENERATIONS_PER_DAY - d.val.count
    IN [threw |-> d.threw, ret |-> IF remaining > 0 THEN remaining ELSE 0]

---------------------------------------------------------------------------
(* Text *)

IsSpace(c) == c \in {" "}

\* String.prototype.trim
RECURSIVE TrimStart(_)
TrimStart(s) == IF s # <<>> /\ IsSpace(Head(s)) THEN TrimStart(Tail(s)) ELSE s
RECURSIVE TrimEnd(_)
TrimEnd(s) ==
    IF s # <<>> /\ IsSpace(s[Len(s)]) THEN TrimEnd(SubSeq(s, 1, Len(s) - 1)) ELSE s
Trim(s) == TrimEnd(TrimStart(s))

\* s.slice(0, n)
Slice(s, n) == SubSeq(s, 1, IF Len(s) < n THEN Len(s) ELSE n)

\* s.replace(/\s/g, '_')
ReplaceSpaces(s) == [i \in 1..Len(s) |-> IF IsSpace(s[i]) THEN "_" ELSE s[i]]

\* the least index from `from` on at which s holds c, or 0
RECURSIVE IndexFrom(_, _, _)
IndexFrom(s, c, from) ==
    IF from > Len(s) THEN 0
    ELSE IF s[from] = c THEN from
    ELSE IndexFrom(s, c, from + 1)

\* s.split(c)
RECURSIVE Split(_, _)
Split(s, c) ==
    LET i == IndexFrom(s, c, 1) IN
    IF i = 0 THEN <<s>>
    ELSE <<SubSeq(s, 1, i - 1)>> \o Split(SubSeq(s, i + 1, Len(s)), c)

\* a line terminator, which the '.' of a regular expression does not match
LineTerminator == "\n"

\* /:(.*?);/ tried at the ':' found from `from` on: the text between that ':'
\* and the first ';' after it, when no line terminator lies between them;
\* else the next ':'
RECURSIVE MatchFrom(_, _)
MatchFrom(header, from) ==
    LET i == IndexFrom(header, ":", from)
        j == IF i = 0 THEN 0 ELSE IndexFrom(header, ";", i + 1)
        n == IF i = 0 THEN 0 ELSE IndexFrom(header, LineTerminator, i + 1)
    IN IF i = 0 \/ j = 0
       THEN [matched |-> FALSE, group |-> <<>>]
       ELSE IF n = 0 \/ n > j
       THEN [matched |-> TRUE, group |-> SubSeq(header, i + 1, j - 1)]
       ELSE MatchFrom(header, i + 1)

\* /(.*?);/, the pattern without its leading ':'
MatchMimeType_unanchored(header) ==
    LET j == IndexFrom(header, ";", 1)
        n == IndexFrom(header, LineTerminator, 1)
    IN IF j = 0 \/ (n # 0 /\ n < j)
       THEN [matched |-> FALSE, group |-> <<>>]
       ELSE [matched |-> TRUE, group |-> SubSeq(header, 1, j - 1)]

\* header.match(/:(.*?);/): the text between the first ':' and the first ';'
\* after it
MatchMimeType(header) == MatchFrom(header, 1)

---------------------------------------------------------------------------
(* Values of the App state *)

Null    == <<>>          \* a string state that is null (generatedImage)
NoError == "null"        \* error === null

\* originalImage === null; an OriginalImage has a non-empty name and previewUrl
NoImage == [base64 |-> <<>>, mimeType |-> <<>>, name |-> <<>>, previewUrl |-> <<>>]

AspectRatios == {"1:1", "16:9", "9:16"}

PromptMessage     == "Please enter a prompt."
QuotaMessage      == "You have reached the daily limit of 20 generations. Please try again tomorrow."
FormatMessage     == "Invalid image format for extension."
MimeTypeMessage   == "Could not determine image type for extension."
SelectFileMessage == "Please select an image file."
ProcessFileMessage == "Failed to process image file."

\* the messages a rejected service call carries (part_000:11, 51-58)
ServiceMessages == { "Failed to generate image: No image data found in the Gemini API response." }

extendPrompt         == <<"next", " ", "scene">>
extendNegativePrompt == <<>>

(* What the user and the service supply *)

PromptInputs   == { <<>>, <<" ">>, <<"a">> }
NegativeInputs == { <<>>, <<"n">> }

\* a prompt of 21 characters, the third a space
LongPrompt == [i \in 1..21 |-> IF i = 3 THEN " " ELSE "x"]
AspectInputs   == { "1:1", "16:9" }
RatingInputs   == { 4 }

\* no service call has been started yet
NoRequest == [imageToEdit |-> NoImage, editPrompt |-> <<>>, negPrompt |-> <<>>,
              aspect |-> "none"]

\* the files the user can pick: an image and something else
NoFile    == [name |-> <<>>, type |-> <<>>]
ImageFile == [name |-> <<"cat.png">>, type |-> <<"image/", "png">>]
TextFile  == [name |-> <<"notes.txt">>, type |-> <<"text/", "plain">>]
Files     == {ImageFile, TextFile}

\* the GeminiImageResponse values the service returns
Results == { [mimeType |-> <<"image/", "png">>, base64 |-> <<"AAAA">>] }

\* GeminiImageResponse values whose strings hold a character the decomposition
\* of handleExtend looks for: a media type with a parameter, with a comma or
\* with a line break, and a payload with a comma
OddResults ==
    { [mimeType |-> <<"image/", "png", ";", "q=1">>,  base64 |-> <<"AAAA">>],
      [mimeType |-> <<"image/", ",", "png">>,         base64 |-> <<"AAAA">>],
      [mimeType |-> <<"image/", LineTerminator, "png">>, base64 |-> <<"AAAA">>],
      [mimeType |-> <<"image/", "png">>,              base64 |-> <<"AA", ",", "BB">>] }

\* fileToBase64(file), when it succeeds
fileToBase64(file) == <<"base64-of-">> \o file.name

\* URL.createObjectURL(file)
createObjectURL(file) == <<"blob", ":">> \o file.name

---------------------------------------------------------------------------
(* src/App.tsx: what the handlers compute *)

\* `data:${result.mimeType};base64,${result.base64}` (line 59)
DataUrl(result) ==
    <<"data", ":">> \o result.mimeType \o <<";", "base64", ",">> \o result.base64

\* the file name of a history entry, the prompt put into it as it is
FileName_unslugged(imageToEdit, editPrompt, t) ==
    IF imageToEdit # NoImage
    THEN <<"edited-">> \o imageToEdit.name
    ELSE <<"created-">> \o editPrompt \o <<"-", ToString(t), ".png">>

\* the service function performGeneration calls (lines 51-53)
Mode(call) == IF call.imageToEdit # NoImage THEN "edit" ELSE "create"

\* the file name of a history entry (lines 55-57)
FileName(imageToEdit, editPrompt, t) ==
    IF imageToEdit # NoImage
    THEN <<"edited-">> \o imageToEdit.name
    ELSE <<"created-">> \o ReplaceSpaces(Slice(editPrompt, 20))
                        \o <<"-", ToString(t), ".png">>

\* the HistoryEntry of lines 65-70: id is the ISO text of the instant, date its
\* text on the client's wall clock
HistoryEntry(imageUrl, fileName, t, z) ==
    [id |-> t, imageUrl |-> imageUrl, fileName |-> fileName, date |-> t + z]

\* line 203
isGenerateDisabled ==
    isLoading \/ Trim(prompt) = <<>> \/ remainingGenerations <= 0

\* the sequence s without its i-th element
RemoveAt(s, i) == SubSeq(s, 1, i - 1) \o SubSeq(s, i + 1, Len(s))

\* the day of the tracker changes between instants t and u
DayChanges(t, u) == getTodayString(t) # getTodayString(u)

---------------------------------------------------------------------------
(* The clock *)

Tick ==
    /\ now < MaxNow
    /\ now' = now + 1
    /\ doneToday' = IF DayChanges(now, now + 1) THEN 0 ELSE doneToday
    /\ UNCHANGED <<tz, storage, fault, results, ret>>
    /\ UNCHANGED appVars

---------------------------------------------------------------------------
(* src/App.tsx: the handlers *)

\* performGeneration up to its await (lines 41-53), it leaves
\* error, isLoading, rating and the calls in flight as the code sets them last.
performGeneration(editPrompt, negPrompt, aspect, imageToEdit) ==
    LET can == canGenerate(storage, now) IN
    IF can.threw
    THEN /\ UNCHANGED <<isLoading, error, rating, pending, dispatched, lastRequest>>
    ELSE IF ~can.ret
    THEN /\ error' = QuotaMessage
         /\ UNCHANGED <<isLoading, rating, pending, dispatched, lastRequest>>
    ELSE /\ dispatched < MaxDispatch
         /\ isLoading' = TRUE
         /\ error' = NoError
         /\ rating' = 0
         /\ pending' = Append(pending, [imageToEdit |-> imageToEdit,
                                        editPrompt  |-> editPrompt,
                                        negPrompt   |-> negPrompt,
                                        aspect      |-> aspect])
         /\ dispatched' = dispatched + 1
         /\ lastRequest' = [imageToEdit |-> imageToEdit,
                            editPrompt  |-> editPrompt,
                            negPrompt   |-> negPrompt,
                            aspect      |-> aspect]

\* handleGenerate testing the prompt without trimming it
handleGenerate_notrim ==
    IF prompt = <<>>
    THEN /\ error' = PromptMessage
         /\ UNCHANGED <<originalImage, generatedImage, isLoading, rating, pending,
                        dispatched, lastRequest>>
    ELSE /\ generatedImage' = Null
         /\ performGeneration(prompt, negativePrompt, aspectRatio, originalImage)
         /\ UNCHANGED originalImage

\* handleGenerate (lines 121-128)
handleGenerate ==
    IF Trim(prompt) = <<>>
    THEN /\ error' = PromptMessage
         /\ UNCHANGED <<originalImage, generatedImage, isLoading, rating, pending,
                        dispatched, lastRequest>>
    ELSE /\ generatedImage' = Null
         /\ performGeneration(prompt, negativePrompt, aspectRatio, originalImage)
         /\ UNCHANGED originalImage

\* the Generate / Create button (lines 296-304)
Generate ==
    /\ ~isGenerateDisabled
    /\ handleGenerate
    /\ UNCHANGED <<envVars, formVars, history, remainingGenerations,
                   fileReading, doneToday>>

\* the Retry button (lines 322, 339-345)
Retry ==
    /\ generatedImage # Null /\ ~isLoading
    /\ handleGenerate
    /\ UNCHANGED <<envVars, formVars, history, remainingGenerations,
                   fileReading, doneToday>>

\* handleExtend clearing the generated image before it has decomposed it
Extend_eager ==
    /\ generatedImage # Null /\ ~isLoading
    /\ LET parts == Split(generatedImage, ",") IN
       IF Len(parts) < 2
       THEN /\ error' = FormatMessage
            /\ generatedImage' = Null
            /\ UNCHANGED <<originalImage, formVars, isLoading, rating, pending,
                           dispatched, lastRequest>>
       ELSE
       LET header        == parts[1]
           base64Data    == parts[2]
           mimeTypeMatch == MatchMimeType(header)
       IN
       IF ~mimeTypeMatch.matched
       THEN /\ error' = MimeTypeMessage
            /\ generatedImage' = Null
            /\ UNCHANGED <<originalImage, formVars, isLoading, rating, pending,
                           dispatched, lastRequest>>
       ELSE
       LET newOriginalImage ==
               [base64     |-> base64Data,
                mimeType   |-> mimeTypeMatch.group,
                name       |-> <<"extended-">> \o
                               (IF originalImage # NoImage THEN originalImage.name
                                                            ELSE <<"image.png">>),
                previewUrl |-> generatedImage]
       IN
       /\ originalImage' = newOriginalImage
       /\ generatedImage' = Null
       /\ prompt' = extendPrompt
       /\ negativePrompt' = extendNegativePrompt
       /\ UNCHANGED aspectRatio
       /\ performGeneration(extendPrompt, extendNegativePrompt, aspectRatio,
                            newOriginalImage)
    /\ UNCHANGED <<envVars, history, remainingGenerations, fileReading, doneToday>>

\* handleExtend calling performGeneration with the prompts of the form as they
\* were when the button was pressed
Extend_formPrompt ==
    /\ generatedImage # Null /\ ~isLoading
    /\ LET parts == Split(generatedImage, ",") IN
       IF Len(parts) < 2
       THEN /\ error' = FormatMessage
            /\ UNCHANGED <<imageVars, formVars, isLoading, rating, pending,
                           dispatched, lastRequest>>
       ELSE
       LET header        == parts[1]
           base64Data    == parts[2]
           mimeTypeMatch == MatchMimeType(header)
       IN
       IF ~mimeTypeMatch.matched
       THEN /\ error' = MimeTypeMessage
            /\ UNCHANGED <<imageVars, formVars, isLoading, rating, pending,
                           dispatched, lastRequest>>
       ELSE
       LET newOriginalImage ==
               [base64     |-> base64Data,
                mimeType   |-> mimeTypeMatch.group,
                name       |-> <<"extended-">> \o
                               (IF originalImage # NoImage THEN originalImage.name
                                                            ELSE <<"image.png">>),
                previewUrl |-> generatedImage]
       IN
       /\ originalImage' = newOriginalImage
       /\ generatedImage' = Null
       /\ prompt' = extendPrompt
       /\ negativePrompt' = extendNegativePrompt
       /\ UNCHANGED aspectRatio
       /\ performGeneration(prompt, negativePrompt, aspectRatio, newOriginalImage)
    /\ UNCHANGED <<envVars, history, remainingGenerations, fileReading, doneToday>>

\* the Extend button (lines 322, 332-338) and handleExtend (lines 146-184)
Extend ==
    /\ generatedImage # Null /\ ~isLoading              \* the button is shown
    /\ ~(generatedImage = Null \/ isLoading)            \* line 147
    /\ LET parts == Split(generatedImage, ",") IN
       IF Len(parts) < 2
       THEN /\ error' = FormatMessage
            /\ UNCHANGED <<imageVars, formVars, isLoading, rating, pending, dispatched, lastRequest>>
       ELSE
       LET header        == parts[1]
           base64Data    == parts[2]
           mimeTypeMatch == MatchMimeType(header)
       IN
       IF ~mimeTypeMatch.matched
       THEN /\ error' = MimeTypeMessage
            /\ UNCHANGED <<imageVars, formVars, isLoading, rating, pending, dispatched, lastRequest>>
       ELSE
       LET newOriginalImage ==
               [base64     |-> base64Data,
                mimeType   |-> mimeTypeMatch.group,
                name       |-> <<"extended-">> \o
                               (IF originalImage # NoImage THEN originalImage.name
                                                            ELSE <<"image.png">>),
                previewUrl |-> generatedImage]
       IN
       /\ originalImage' = newOriginalImage
       /\ generatedImage' = Null
       /\ prompt' = extendPrompt
       /\ negativePrompt' = extendNegativePrompt
       /\ UNCHANGED aspectRatio
       \* setError(null) of line 178, then whatever performGeneration sets
       /\ performGeneration(extendPrompt, extendNegativePrompt, aspectRatio,
                            newOriginalImage)
    /\ UNCHANGED <<envVars, history, remainingGenerations, fileReading, doneToday>>

\* the success path adding its history entry at the end of the list
Resolve_appendsLast(i, result) ==
    LET call     == pending[i]
        fileName == FileName(call.imageToEdit, call.editPrompt, now)
        imageUrl == DataUrl(result)
        inc      == incrementGenerationCount(storage, now)
        left     == getRemainingGenerations(inc.item, now)
    IN
    /\ generatedImage' = imageUrl
    /\ storage' = inc.item
    /\ IF inc.threw \/ left.threw
       THEN /\ error' = "An unexpected error occurred."
            /\ UNCHANGED <<history, remainingGenerations>>
       ELSE /\ remainingGenerations' = left.ret
            /\ history' = Append(history, HistoryEntry(imageUrl, fileName, now, tz))
            /\ UNCHANGED error
    /\ isLoading' = FALSE
    /\ pending' = RemoveAt(pending, i)
    /\ doneToday' = (IF inc.threw \/ left.threw THEN doneToday ELSE doneToday + 1)
    /\ UNCHANGED <<now, tz, fault, results, ret, originalImage, formVars, rating,
                   fileReading, dispatched, lastRequest>>

\* the service call of pending[i] returns `result`: lines 55-71 and 76
Resolve(i, result) ==
    LET call     == pending[i]
        fileName == FileName(call.imageToEdit, call.editPrompt, now)
        imageUrl == DataUrl(result)
        inc      == incrementGenerationCount(storage, now)
        left     == getRemainingGenerations(inc.item, now)
    IN
    /\ generatedImage' = imageUrl
    /\ storage' = inc.item
    /\ IF inc.threw \/ left.threw
       THEN /\ error' = "An unexpected error occurred."          \* line 74
            /\ UNCHANGED <<history, remainingGenerations>>
       ELSE /\ remainingGenerations' = left.ret
            /\ history' = <<HistoryEntry(imageUrl, fileName, now, tz)>> \o history
            /\ UNCHANGED error
    /\ isLoading' = FALSE
    /\ pending' = RemoveAt(pending, i)
    /\ doneToday' = (IF inc.threw \/ left.threw THEN doneToday ELSE doneToday + 1)
    /\ UNCHANGED <<now, tz, fault, results, ret, originalImage, formVars, rating, fileReading,
                   dispatched, lastRequest>>

\* Reject counting the failed attempt against the quota
Reject_consuming(i, message) ==
    /\ error' = (IF message # "" THEN message ELSE "An unexpected error occurred.")
    /\ isLoading' = FALSE
    /\ pending' = RemoveAt(pending, i)
    /\ storage' = incrementGenerationCount(storage, now).item
    /\ UNCHANGED <<now, tz, fault, results, ret, imageVars, formVars, rating, history,
                   remainingGenerations, fileReading, dispatched, lastRequest, doneToday>>

\* the failure path without the finally of line 76
Reject_keepsLoading(i, message) ==
    /\ error' = (IF message # "" THEN message ELSE "An unexpected error occurred.")
    /\ pending' = RemoveAt(pending, i)
    /\ UNCHANGED <<envVars, imageVars, formVars, isLoading, rating, history,
                   remainingGenerations, fileReading, dispatched, lastRequest,
                   doneToday>>

\* the service call of pending[i] is rejected with `message`: lines 73-77
Reject(i, message) ==
    /\ error' = (IF message # "" THEN message ELSE "An unexpected error occurred.")
    /\ isLoading' = FALSE
    /\ pending' = RemoveAt(pending, i)
    /\ UNCHANGED <<envVars, imageVars, formVars, rating, history,
                   remainingGenerations, fileReading, dispatched, lastRequest, doneToday>>

ServiceResponds ==
    \E i \in 1..Len(pending) :
        \/ \E result \in results : Resolve(i, result)
        \/ \E message \in ServiceMessages : Reject(i, message)

\* the prompt textarea (lines 253-260)
SetPrompt ==
    /\ ~isLoading
    /\ \E p \in PromptInputs : prompt' = p
    /\ UNCHANGED <<envVars, imageVars, negativePrompt, aspectRatio, isLoading,
                   error, rating, history, remainingGenerations, pending,
                   fileReading, dispatched, lastRequest, doneToday>>

\* the prompt textarea, a longer text typed into it
SetLongPrompt ==
    /\ ~isLoading
    /\ prompt' = LongPrompt
    /\ UNCHANGED <<envVars, imageVars, negativePrompt, aspectRatio, isLoading,
                   error, rating, history, remainingGenerations, pending,
                   fileReading, dispatched, lastRequest, doneToday>>

\* the negative prompt textarea (lines 264-271)
SetNegativePrompt ==
    /\ ~isLoading
    /\ \E p \in NegativeInputs : negativePrompt' = p
    /\ UNCHANGED <<envVars, imageVars, prompt, aspectRatio, isLoading,
                   error, rating, history, remainingGenerations, pending,
                   fileReading, dispatched, lastRequest, doneToday>>

\* the aspect ratio buttons (lines 276-289)
SetAspectRatio ==
    /\ ~isLoading
    /\ \E a \in AspectInputs : aspectRatio' = a
    /\ UNCHANGED <<envVars, imageVars, prompt, negativePrompt, isLoading,
                   error, rating, history, remainingGenerations, pending,
                   fileReading, dispatched, lastRequest, doneToday>>

\* the stars (lines 322, 352; StarRating.tsx:18)
SetRating ==
    /\ generatedImage # Null /\ ~isLoading
    /\ \E r \in RatingInputs : rating' = r
    /\ UNCHANGED <<envVars, imageVars, formVars, isLoading, error, history,
                   remainingGenerations, pending, fileReading, dispatched, lastRequest, doneToday>>

\* the remove button of the original image (lines 243-248, ImagePreview.tsx:30-57)
\* and handleRemoveImage (lines 86-94)
RemoveImage ==
    /\ originalImage # NoImage /\ ~isLoading
    /\ originalImage' = NoImage
    /\ generatedImage' = Null
    /\ isLoading' = FALSE
    /\ rating' = 0
    /\ UNCHANGED <<envVars, formVars, error, history, remainingGenerations,
                   pending, fileReading, dispatched, lastRequest, doneToday>>

\* the file input (lines 233-241) and handleFileChange up to its await
\* (lines 96-107)
FileChange ==
    /\ originalImage = NoImage                      \* the input is rendered
    /\ fileReading = NoFile                         \* one read at a time
    /\ \E file \in Files :
        IF Head(file.type) # "image/"
        THEN /\ error' = SelectFileMessage
             /\ UNCHANGED <<imageVars, prompt, negativePrompt, isLoading, rating,
                            fileReading>>
        ELSE \* handleRemoveImage(); handleResetPromptsAndErrors()
             /\ originalImage' = NoImage
             /\ generatedImage' = Null
             /\ isLoading' = FALSE
             /\ rating' = 0
             /\ prompt' = <<>>
             /\ negativePrompt' = <<>>
             /\ error' = NoError
             /\ fileReading' = file
    /\ UNCHANGED <<envVars, aspectRatio, history, remainingGenerations,
                   pending, dispatched, lastRequest, doneToday>>

\* fileToBase64 resolves (lines 107-113)
FileLoaded ==
    /\ fileReading # NoFile
    /\ originalImage' = [base64     |-> fileToBase64(fileReading),
                         mimeType   |-> fileReading.type,
                         name       |-> fileReading.name,
                         previewUrl |-> createObjectURL(fileReading)]
    /\ fileReading' = NoFile
    /\ UNCHANGED <<envVars, generatedImage, formVars, isLoading, error, rating,
                   history, remainingGenerations, pending, dispatched, lastRequest, doneToday>>

\* fileToBase64 rejects (lines 114-117)
FileFailed ==
    /\ fileReading # NoFile
    /\ error' = ProcessFileMessage
    /\ fileReading' = NoFile
    /\ UNCHANGED <<envVars, imageVars, formVars, isLoading, rating,
                   history, remainingGenerations, pending, dispatched, lastRequest, doneToday>>

\* handleClearHistory clearing the history without asking
ClearHistoryOn_unasked(confirmed) ==
    /\ Len(history) > 0
    /\ history' = <<>>
    /\ UNCHANGED <<envVars, imageVars, formVars, isLoading, error, rating,
                   remainingGenerations, pending, fileReading, dispatched,
                   lastRequest, doneToday>>

\* the Clear All button (lines 359-370) and handleClearHistory (lines 140-144),
\* window.confirm answering `confirmed`
ClearHistoryOn(confirmed) ==
    /\ Len(history) > 0
    /\ history' = (IF confirmed THEN <<>> ELSE history)
    /\ UNCHANGED <<envVars, imageVars, formVars, isLoading, error, rating,
                   remainingGenerations, pending, fileReading, dispatched,
                   lastRequest, doneToday>>

ClearHistory == \E confirmed \in BOOLEAN : ClearHistoryOn(confirmed)

\* the Reset to Start button (lines 218-225) and handleReset (lines 186-201),
\* window.confirm answering `confirmed`
ResetOn(confirmed) ==
    /\ IF confirmed
       THEN /\ originalImage' = NoImage
            /\ generatedImage' = Null
            /\ prompt' = <<>>
            /\ negativePrompt' = <<>>
            /\ aspectRatio' = "1:1"
            /\ isLoading' = FALSE
            /\ error' = NoError
            /\ rating' = 0
            /\ history' = <<>>
       ELSE UNCHANGED <<imageVars, formVars, isLoading, error, rating, history>>
    /\ UNCHANGED <<envVars, remainingGenerations, pending, fileReading,
                   dispatched, lastRequest, doneToday>>

Reset == \E confirmed \in BOOLEAN : ResetOn(confirmed)

---------------------------------------------------------------------------
(* The App *)

Call(op, out, n) == [op |-> op, out |-> out, n |-> n]
Outcome(threw, text) == IF threw THEN "throw" ELSE text

\* today's count of an item, as the claims speak of it
CountToday(item, t) ==
    IF item.kind = "record" /\ item.date = getTodayString(t) THEN item.count ELSE 0

\* the App after its first render and its mount effect (lines 17-33)
AppInit ==
    /\ originalImage = NoImage
    /\ generatedImage = Null
    /\ prompt = <<>>
    /\ negativePrompt = <<>>
    /\ aspectRatio = "1:1"
    /\ isLoading = FALSE
    /\ error = NoError
    /\ rating = 0
    /\ history = <<>>
    /\ remainingGenerations = getRemainingGenerations(storage, now).ret
    /\ pending = <<>>
    /\ fileReading = NoFile
    /\ dispatched = 0
    /\ lastRequest = NoRequest
    /\ doneToday = CountToday(storage, now)
    /\ ret = Call("none", "", 0)

\* the items the App is started on: none, or the record the tracker wrote
\* after the day's last but one generation
StartItems == { AbsentItem, Item("record", 0, MAX_GENERATIONS_PER_DAY - 1) }

Init ==
    /\ now = 1
    /\ tz = 0
    /\ fault = "none"
    /\ results = Results
    /\ storage \in StartItems
    /\ AppInit

\* The workflow against the quota: the user leaves the negative prompt, the
\* aspect ratio and the rating as the handlers set them.
Next ==
    \/ Tick
    \/ SetPrompt
    \/ Generate
    \/ Retry
    \/ Extend
    \/ ServiceResponds
    \/ RemoveImage
    \/ FileChange
    \/ FileLoaded
    \/ FileFailed
    \/ ClearHistory
    \/ Reset

Spec == Init /\ [][Next]_vars

\* The workflow with every input of the form: uploads, the prompt, the negative
\* prompt and the aspect ratio, on a store that starts empty, within one
\* instant of the clock.
InitForm ==
    /\ now = 1
    /\ tz = 0
    /\ fault = "none"
    /\ results = Results
    /\ storage = AbsentItem
    /\ AppInit

NextForm ==
    \/ SetPrompt
    \/ SetNegativePrompt
    \/ SetAspectRatio
    \/ FileChange
    \/ FileLoaded
    \/ Generate
    \/ Retry
    \/ Extend
    \/ ServiceResponds
    \/ Reset

SpecForm == InitForm /\ [][NextForm]_vars

\* The workflow around a result: the form without uploads, and what the user
\* does with what is shown: rate it, remove the image, clear the history,
\* reset.
NextResult ==
    \/ SetPrompt
    \/ SetNegativePrompt
    \/ SetAspectRatio
    \/ SetRating
    \/ Generate
    \/ Retry
    \/ Extend
    \/ ServiceResponds
    \/ RemoveImage
    \/ ClearHistory
    \/ Reset

SpecResult == InitForm /\ [][NextResult]_vars

\* The workflow in a browser whose localStorage fails: setItem throws (the store
\* is full or read-only), or every access throws (the store is denied).
StorageFaults == {"write", "access"}

InitFault ==
    /\ now = 1
    /\ tz = 0
    /\ fault \in StorageFaults
    /\ results = Results
    /\ storage \in StartItems
    /\ AppInit

\* generations and their responses, as the days pass
NextFault ==
    \/ Tick
    \/ SetPrompt
    \/ Generate
    \/ Retry
    \/ Extend
    \/ ServiceResponds
    \/ Reset

SpecFault == InitFault /\ [][NextFault]_vars

---------------------------------------------------------------------------
(* The quota tracker on its own: its three exported functions called in any *)
(* order, on any item, as the days pass                                     *)

CallCanGenerate ==
    LET r == canGenerate(storage, now) IN
    /\ ret' = Call("canGenerate", Outcome(r.threw, IF r.ret THEN "true" ELSE "false"), 0)
    /\ UNCHANGED <<trackerVars, doneToday>>
    /\ UNCHANGED appVars

CallIncrementGenerationCount ==
    LET r == incrementGenerationCount(storage, now) IN
    /\ storage' = r.item
    /\ ret' = Call("incrementGenerationCount", Outcome(r.threw, "void"), 0)
    /\ UNCHANGED <<now, tz, fault, results, doneToday>>
    /\ UNCHANGED appVars

CallGetRemainingGenerations ==
    LET r == getRemainingGenerations(storage, now) IN
    /\ ret' = Call("getRemainingGenerations", Outcome(r.threw, "number"), r.ret)
    /\ UNCHANGED <<trackerVars, doneToday>>
    /\ UNCHANGED appVars

InitQuota ==
    /\ now = 1
    /\ tz \in TzOffsets
    /\ fault = "none"
    /\ results = Results
    /\ storage \in UnreadableItems \cup WrittenItems
    /\ AppInit

NextQuota ==
    \/ Tick
    \/ CallCanGenerate
    \/ CallIncrementGenerationCount
    \/ CallGetRemainingGenerations

SpecQuota == InitQuota /\ [][NextQuota]_vars

\* The tracker on any item the key can hold: also a record somebody edited by
\* hand, whose count is past the limit.
TamperedItems == { Item("record", d, c) :
                      d \in WrittenDays,
                      c \in {MAX_GENERATIONS_PER_DAY + 1, 2 * MAX_GENERATIONS_PER_DAY} }

InitTampered ==
    /\ now = 1
    /\ tz = 0
    /\ fault = "none"
    /\ results = Results
    /\ storage \in UnreadableItems \cup WrittenItems \cup TamperedItems
    /\ AppInit

SpecTampered == InitTampered /\ [][NextQuota]_vars

\* The workflow on a service that returns one of the odd results, or the
\* ordinary one, on a store that starts empty.
InitExtend ==
    /\ now = 1
    /\ tz = 0
    /\ fault = "none"
    /\ results \in { {r} : r \in Results \cup OddResults }
    /\ storage = AbsentItem
    /\ AppInit

\* generations, their responses and what the user does with the result
NextExtend ==
    \/ SetPrompt
    \/ Generate
    \/ Retry
    \/ Extend
    \/ ServiceResponds
    \/ RemoveImage
    \/ ClearHistory
    \/ Reset

SpecExtend == InitExtend /\ [][NextExtend]_vars

\* The workflow within one instant of the clock, with a service that answers:
\* every call awaited is resolved or rejected in the end (the promise of
\* part_000:49 or :101 settles).
NextLive ==
    \/ SetPrompt
    \/ Generate
    \/ Retry
    \/ Extend
    \/ ServiceResponds
    \/ RemoveImage
    \/ Reset

SpecLive == Init /\ [][NextLive]_vars /\ WF_vars(ServiceResponds)

\* Creating and editing: uploads, short and long prompts, generations and
\* their responses as the clock runs, on a store that starts empty.
NextMode ==
    \/ Tick
    \/ SetPrompt
    \/ SetLongPrompt
    \/ FileChange
    \/ FileLoaded
    \/ Generate
    \/ Retry
    \/ Extend
    \/ ServiceResponds
    \/ RemoveImage

SpecMode == InitForm /\ [][NextMode]_vars

---------------------------------------------------------------------------
(* Steps of the workflow, as the claims speak of them *)

\* a service call returns a result / is rejected
ResolveStep == \E i \in 1..Len(pending) : \E result \in results : Resolve(i, result)
RejectStep  == \E i \in 1..Len(pending) : \E message \in ServiceMessages : Reject(i, message)

\* a generate action: manual generate, retry or extend
GenerateAction == Generate \/ Retry \/ Extend

\* a generate action that ends without a dispatch, or a dispatch that is rejected
FailedAttempt == (GenerateAction /\ pending' = pending) \/ RejectStep

\* the stored record is a record of another day than today
Stale(item, t) == item.kind = "record" /\ item.date # getTodayString(t)

TodayItem(t, c) == Item("record", getTodayString(t), c)

\* the elements of a sequence
Range(s) == { s[i] : i \in 1..Len(s) }

\* a result whose media type holds no ';', no ',' and no line terminator and
\* whose payload holds no ','
PlainResult(r) ==
    /\ Range(r.mimeType) \cap {";", ",", LineTerminator} = {}
    /\ "," \notin Range(r.base64)

\* the two tests of handleExtend (lines 151 and 159) pass on the reference
Decomposable(url) ==
    /\ Len(Split(url, ",")) >= 2
    /\ MatchMimeType(Split(url, ",")[1]).matched

\* the SourceImage handleExtend derives from the generated image (lines 164-169)
ExtendedImage(url, previous) ==
    [base64     |-> Split(url, ",")[2],
     mimeType   |-> MatchMimeType(Split(url, ",")[1]).group,
     name       |-> <<"extended-">> \o (IF previous # NoImage THEN previous.name
                                                               ELSE <<"image.png">>),
     previewUrl |-> url]

---------------------------------------------------------------------------
(* Claims *)

\* C1: at most one GenerationService call is outstanding in every reachable
\* state.
C1_SingleInFlight == Len(pending) <= 1

\* C2: within one calendar day the number of successful generations never
\* exceeds MAX_GENERATIONS_PER_DAY.
C2_DailyLimit == doneToday <= MAX_GENERATIONS_PER_DAY

\* C3: every successful generation increments today's persisted count by
\* exactly 1, appends exactly 1 history entry and leaves the error null.
C3_SuccessEffects ==
    [][ResolveStep =>
          /\ CountToday(storage', now') = CountToday(storage, now) + 1
          /\ Len(history') = Len(history) + 1
          /\ error' = NoError]_vars

\* C4: a failed generation attempt (empty prompt, quota exceeded, or a rejected
\* service call) leaves the persisted quota record and the history as they
\* were and sets a non-empty error message.
C4_FailureLeavesQuotaAndHistory ==
    [][FailedAttempt =>
          /\ storage' = storage
          /\ history' = history
          /\ error' \notin {NoError, ""}]_vars

\* C4 witness: a rejected service call has left its message, with the day's
\* count still what the App started on and no history entry.
C4_Witness ==
    /\ error \in ServiceMessages
    /\ dispatched = 1 /\ pending = <<>>
    /\ history = <<>>
    /\ storage = Item("record", 0, MAX_GENERATIONS_PER_DAY - 1)

C6_CountInRange ==
    getRateLimitData(storage, now).val.count \in 0..MAX_GENERATIONS_PER_DAY

\* C6 witness: incrementGenerationCount was called and today's record stands
\* at the ceiling.
C6_Witness ==
    /\ ret.op = "incrementGenerationCount"
    /\ storage = TodayItem(now, MAX_GENERATIONS_PER_DAY)

\* C7: with today's count c < 20, canGenerate returns true and
\* incrementGenerationCount persists c + 1 for today; with c = 20, canGenerate
\* returns false and incrementGenerationCount writes nothing.
C7_CheckAndConsume ==
    [][LET c == CountToday(storage, now) IN
       /\ CallCanGenerate =>
            ret'.out = (IF c < MAX_GENERATIONS_PER_DAY THEN "true" ELSE "false")
       /\ CallIncrementGenerationCount =>
            storage' = (IF c < MAX_GENERATIONS_PER_DAY THEN TodayItem(now, c + 1)
                                                       ELSE storage)]_vars

\* C7 witness: canGenerate has returned false at count 20.
C7_Witness ==
    /\ ret = Call("canGenerate", "false", 0)
    /\ CountToday(storage, now) = MAX_GENERATIONS_PER_DAY

\* C8: when the persisted record is of another day, canGenerate is true,
\* getRemainingGenerations is 20 and the next consume persists
\* {date: today, count: 1}.
C8_DayRollover ==
    [][Stale(storage, now) =>
          /\ CallCanGenerate => ret' = Call("canGenerate", "true", 0)
          /\ CallGetRemainingGenerations =>
                ret' = Call("getRemainingGenerations", "number", MAX_GENERATIONS_PER_DAY)
          /\ CallIncrementGenerationCount => storage' = TodayItem(now, 1)]_vars

\* C8 witness: canGenerate has returned true on a full record of another day.
C8_Witness ==
    /\ Stale(storage, now)
    /\ storage.count = MAX_GENERATIONS_PER_DAY
    /\ ret = Call("canGenerate", "true", 0)

\* C9: the quota day is the client's local calendar date: as the clock moves
\* from one instant to another, the tracker goes on using today's record
\* exactly when the two instants are on the same local calendar day.
C9_LocalCalendarDay ==
    [][(now' # now /\ CountToday(storage, now) > 0) =>
          (LocalDay(now', tz) = LocalDay(now, tz)
             <=> getRateLimitData(storage, now').val.count = CountToday(storage, now))]_vars

\* C10: a stored value that cannot be parsed into a record is treated as an
\* absent key: the tracker's calls see the fresh record {today, 0} and none of
\* them throws.
C10_CorruptAsAbsent ==
    [][storage.kind \in CorruptKinds =>
          /\ CallCanGenerate => ret' = Call("canGenerate", "true", 0)
          /\ CallGetRemainingGenerations =>
                ret' = Call("getRemainingGenerations", "number", MAX_GENERATIONS_PER_DAY)
          /\ CallIncrementGenerationCount =>
                /\ ret' = Call("incrementGenerationCount", "void", 0)
                /\ storage' = TodayItem(now, 1)]_vars

\* C10 witness: getRemainingGenerations has returned 20 on a corrupt item.
C10_Witness ==
    /\ storage.kind \in CorruptKinds
    /\ ret = Call("getRemainingGenerations", "number", MAX_GENERATIONS_PER_DAY)

\* C11: a storage read or write failure never raises to the caller of
\* canGenerate, incrementGenerationCount or getRemainingGenerations: with a
\* failing read the day's count is taken as 0 (a generation is available, the
\* whole quota remains), with a failing write the call returns and the stored
\* item is as it was, and a service call that returns a result still completes
\* as a success (the image is shown, the history grows by one entry, no error
\* is set).
C11_StorageFailureContained ==
    [][(fault # "none") =>
          /\ ~canGenerate(storage, now).threw
          /\ ~incrementGenerationCount(storage, now).threw
          /\ ~getRemainingGenerations(storage, now).threw
          /\ incrementGenerationCount(storage, now).item = storage
          /\ fault = "access" => canGenerate(storage, now).ret
          /\ fault = "access" =>
                getRemainingGenerations(storage, now).ret = MAX_GENERATIONS_PER_DAY
          /\ fault = "access" /\ GenerateAction /\ generatedImage' = Null =>
                pending' # pending
          /\ ResolveStep =>
                /\ storage' = storage
                /\ generatedImage' # Null /\ error' = error /\ ~isLoading'
                /\ Len(history') = Len(history) + 1
    ]_vars

\* C11 witness: the store refuses writes, and a generation has completed as a
\* success on the record of 19 generations, which is as it was.
C11_Witness ==
    /\ fault = "write"
    /\ storage = Item("record", 0, MAX_GENERATIONS_PER_DAY - 1)
    /\ generatedImage # Null
    /\ Len(history) = 1
    /\ error = NoError

\* C12: getRemainingGenerations() returns max(0, 20 - count), a number that is
\* never negative, where count is today's effective count: that of the stored
\* record when it is today's, and 0 when the item is absent, corrupt or the
\* record of another day.
C12_RemainingIsFlooredDifference ==
    [][CallGetRemainingGenerations =>
          LET count == CountToday(storage, now)
              diff  == MAX_GENERATIONS_PER_DAY - count
          IN /\ ret'.out = "number"
             /\ ret'.n >= 0
             /\ ret'.n = (IF diff > 0 THEN diff ELSE 0)]_vars

\* C12 witness: the call has returned 0 on today's record whose count is past
\* the limit.
C12_Witness ==
    /\ storage.kind = "record"
    /\ storage.date = getTodayString(now)
    /\ storage.count > MAX_GENERATIONS_PER_DAY
    /\ ret = Call("getRemainingGenerations", "number", 0)

\* C13: a generate action (Generate or Retry) whose prompt is empty after
\* trimming ends with the validation message and changes nothing but the
\* error: no quota check, no dispatch; one whose prompt is not empty and whose
\* negative prompt is empty passes the validation and, the quota allowing, is
\* dispatched with the form's prompt, negative prompt, aspect ratio and image.
C13_BlankPromptRejected ==
    [][Generate \/ Retry =>
          IF Trim(prompt) = <<>>
          THEN /\ error' = PromptMessage
               /\ UNCHANGED <<envVars, imageVars, formVars, isLoading, rating,
                              history, remainingGenerations, pending, fileReading,
                              dispatched, lastRequest, doneToday>>
          ELSE negativePrompt = <<>> /\ canGenerate(storage, now).ret =>
                  /\ error' = NoError
                  /\ pending' = Append(pending, [imageToEdit |-> originalImage,
                                                 editPrompt  |-> prompt,
                                                 negPrompt   |-> <<>>,
                                                 aspect      |-> aspectRatio])]_vars

\* C13 witness: with the day's quota used up, a retry on a blank prompt has
\* ended with the validation message, the image still shown.
C13_Witness ==
    /\ prompt = <<" ">>
    /\ error = PromptMessage
    /\ generatedImage # Null
    /\ CountToday(storage, now) = MAX_GENERATIONS_PER_DAY
    /\ pending = <<>>

\* C14 (as stated): for every GenerationResult (mediaType, encodedBytes),
\* extending the reference data:<mediaType>;base64,<encodedBytes> yields a
\* SourceImage whose mimeType is mediaType and whose base64 is encodedBytes.
C14_ExtendInvertsDataUrl ==
    [][Extend =>
          \A r \in results :
              generatedImage = DataUrl(r) =>
                  /\ originalImage'.mimeType = r.mimeType
                  /\ originalImage'.base64 = r.base64]_vars

\* C14 (amended): the same for every GenerationResult whose media type holds
\* no ';', no ',' and no line terminator and whose payload holds no ','.
C14_ExtendInvertsPlainDataUrl ==
    [][Extend =>
          \A r \in results :
              PlainResult(r) /\ generatedImage = DataUrl(r) =>
                  /\ originalImage'.mimeType = r.mimeType
                  /\ originalImage'.base64 = r.base64]_vars

\* C14 witness: the image of a plain result has been extended, and the active
\* input carries its media type and its payload.
C14_Witness ==
    \E r \in results :
        /\ PlainResult(r)
        /\ originalImage.previewUrl = DataUrl(r)
        /\ originalImage.mimeType = r.mimeType
        /\ originalImage.base64 = r.base64

\* C15: Extend on a generated-image reference that does not decompose (no
\* comma, or no media type between ':' and ';' in its header) ends with a
\* format error and changes nothing else: the images, the prompts, the
\* history and the quota are as they were and no service call is dispatched.
C15_UndecomposableExtendOnlyErrors ==
    [][Extend /\ ~Decomposable(generatedImage) =>
          /\ error' \in {FormatMessage, MimeTypeMessage}
          /\ UNCHANGED <<envVars, imageVars, formVars, aspectRatio, isLoading,
                         rating, history, remainingGenerations, pending,
                         fileReading, dispatched, lastRequest, doneToday>>]_vars

\* C15 witness: Extend has ended with the format error on the image of a
\* result whose media type does not come out of the header.
C15_Witness ==
    /\ generatedImage # Null
    /\ ~Decomposable(generatedImage)
    /\ error = MimeTypeMessage
    /\ Len(history) = 1
    /\ pending = <<>>

\* C16: one Extend on a decomposable generated image is one step: the derived
\* SourceImage (name extended-<previous name>, preview = the generated image)
\* becomes the active input, the generated image is cleared, the prompt
\* becomes the fixed continuation prompt, the negative prompt becomes empty,
\* and at most one generation is dispatched, in Edit mode with that
\* SourceImage and the current aspect ratio; a service call is started by a
\* user's generate, retry or extend only.
C16_ExtendIsOneStep ==
    [][/\ Extend /\ Decomposable(generatedImage) =>
            LET source == ExtendedImage(generatedImage, originalImage) IN
            /\ source # NoImage
            /\ originalImage' = source
            /\ generatedImage' = Null
            /\ prompt' = extendPrompt
            /\ negativePrompt' = <<>>
            /\ aspectRatio' = aspectRatio
            /\ \/ pending' = pending
               \/ pending' = Append(pending, [imageToEdit |-> source,
                                              editPrompt  |-> extendPrompt,
                                              negPrompt   |-> <<>>,
                                              aspect      |-> aspectRatio])
       /\ Len(pending') > Len(pending) =>
            /\ GenerateAction
            /\ Len(pending') = Len(pending) + 1
      ]_vars

\* C16 witness: the result of an edit of cat.png has been extended at 16:9
\* with a negative prompt in the form: the one call in flight is the edit of
\* extended-cat.png with the continuation prompt.
C16_Witness ==
    /\ originalImage.name = <<"extended-", "cat.png">>
    /\ originalImage.previewUrl # <<>>
    /\ generatedImage = Null
    /\ prompt = extendPrompt
    /\ negativePrompt = <<>>
    /\ aspectRatio = "16:9"
    /\ pending = <<[imageToEdit |-> originalImage, editPrompt |-> extendPrompt,
                    negPrompt |-> <<>>, aspect |-> "16:9"]>>
    /\ \E h \in 1..Len(history) : originalImage.previewUrl = history[h].imageUrl

\* C17: the request a Retry dispatches has the same source image (and so the
\* same mode), prompt, negative prompt and aspect ratio as the request
\* dispatched last before it, in every state in which Retry is available.
C17_RetryRepeatsLastRequest ==
    [][Retry /\ Len(pending') > Len(pending) =>
          pending'[Len(pending')] = lastRequest]_vars

\* C18: a confirmed Reset, from any state, leaves original image = none,
\* generated image = none, prompt = empty, negative prompt = empty, aspect
\* ratio = 1:1, error = none, rating = 0, history = empty and the orchestrator
\* Idle (isLoading false and no request in flight), and the persisted quota
\* record as it was.
C18_ResetClearsAll ==
    [][ResetOn(TRUE) =>
          /\ originalImage' = NoImage
          /\ generatedImage' = Null
          /\ prompt' = <<>>
          /\ negativePrompt' = <<>>
          /\ aspectRatio' = "1:1"
          /\ error' = NoError
          /\ rating' = 0
          /\ history' = <<>>
          /\ ~isLoading'
          /\ pending' = <<>>
          /\ storage' = storage]_vars

\* C19: clear-history and Reset take effect only after confirmation: when
\* the confirmation is declined the whole state (history, images, prompts,
\* aspect ratio, error, rating, quota) is as it was; when clear-history is
\* confirmed the history becomes empty whatever its size, and everything
\* else is as it was.
C19_OnlyAfterConfirmation ==
    [][/\ ClearHistoryOn(FALSE) => UNCHANGED vars
       /\ ResetOn(FALSE) => UNCHANGED vars
       /\ ClearHistoryOn(TRUE) =>
             /\ history' = <<>>
             /\ UNCHANGED <<envVars, imageVars, formVars, isLoading, error, rating,
                            remainingGenerations, pending, fileReading,
                            dispatched, lastRequest, doneToday>>
      ]_vars

\* C19 witness: a history of two entries has been cleared; the rated image,
\* the form and the quota record of the two generations are as they were.
C19_Witness ==
    /\ history = <<>>
    /\ generatedImage # Null
    /\ rating # 0
    /\ prompt = <<"a">> /\ negativePrompt = <<"n">> /\ aspectRatio = "16:9"
    /\ storage = TodayItem(now, 2)

\* C20: the history is newest-first and append-only between clears: it
\* changes only by a new entry put at its head by a service call that
\* returned, the entries present before keeping their content and order
\* behind it and none of them being newer, or by a clear-all or a Reset that
\* removes all entries at once.
C20_HistoryNewestFirstAppendOnly ==
    [][history' # history =>
          \/ /\ ResolveStep
             /\ Len(history') = Len(history) + 1
             /\ Tail(history') = history
             /\ \A h \in 1..Len(history) : history'[1].id >= history[h].id
          \/ /\ ClearHistory \/ Reset
             /\ history' = <<>>]_vars

\* C20 witness: two entries, the one made at the later instant first.
C20_Witness ==
    /\ Len(history) = 2
    /\ history[1].id > history[2].id

\* C21: every generate action returns the orchestrator to Idle (isLoading
\* false) in the end, whether the validation fails, the quota is used up, the
\* service call succeeds or fails, as long as the service answers every call;
\* and from Idle a generate action with a prompt and quota left is taken up:
\* its call is dispatched.
C21_ReturnsToIdle ==
    /\ isLoading ~> ~isLoading
    /\ [][/\ GenerateAction /\ pending' = pending => ~isLoading'
          /\ (ResolveStep \/ RejectStep) => ~isLoading'
          /\ (Generate \/ Retry) /\ ~isLoading /\ Trim(prompt) # <<>>
                /\ canGenerate(storage, now).ret =>
                    isLoading' /\ Len(pending') = Len(pending) + 1
         ]_vars

\* C21 witness: after a success that used the day's last generation and an
\* attempt refused for the quota, a second call in flight at the refusal has
\* been rejected: the orchestrator is Idle with nothing awaited.
C21_Witness ==
    /\ ~isLoading
    /\ pending = <<>>
    /\ dispatched = MaxDispatch
    /\ Len(history) = 1
    /\ error \in ServiceMessages
    /\ CountToday(storage, now) = MAX_GENERATIONS_PER_DAY

\* C22: the mode is Edit exactly when a source image is present at the
\* dispatch, and Create otherwise: the call dispatched carries the active
\* source image (Edit, editImageWithGemini) or none (Create,
\* createImageWithGemini), and the history entry of its result is named
\* edited-<source name> for Edit and
\* created-<first 20 characters of the prompt, whitespace as '_'>-<instant>.png
\* for Create.
C22_ModeFollowsSourceImage ==
    [][/\ Len(pending') > Len(pending) =>
             LET call == pending'[Len(pending')] IN
             /\ call.imageToEdit = originalImage'
             /\ Mode(call) = "edit" <=> originalImage' # NoImage
       /\ ResolveStep /\ history' # history =>
             \E i \in 1..Len(pending) :
                 /\ pending' = RemoveAt(pending, i)
                 /\ history'[1].fileName =
                      (IF Mode(pending[i]) = "edit"
                       THEN <<"edited-">> \o pending[i].imageToEdit.name
                       ELSE <<"created-">>
                            \o ReplaceSpaces(Slice(pending[i].editPrompt, 20))
                            \o <<"-", ToString(now), ".png">>)
      ]_vars

\* C22 witness: the history holds the edit of cat.png above the creation from
\* the long prompt, whose name carries 20 characters of it with '_' for the
\* space.
C22_Witness ==
    /\ Len(history) = 2
    /\ history[1].fileName = <<"edited-", "cat.png">>
    /\ Len(history[2].fileName) = 24
    /\ SubSeq(history[2].fileName, 1, 4) = <<"created-", "x", "x", "_">>
    /\ history[2].fileName[24] = ".png"

\* C23: the entries the history holds at one time have pairwise distinct
\* ids, for any sequence of successful generations.
C23_DistinctIds ==
    \A g, h \in 1..Len(history) : g # h => history[g].id # history[h].id

\* C24: after a confirmed Reset (or an image removal or a new upload) while a
\* generation is in flight, the response of that request does not alter the
\* reset state: when the one call started so far is answered while isLoading
\* is false, the generated image and the history stay empty and the stored
\* quota record is as it was.
C24_StaleResponseIgnored ==
    [][(ResolveStep \/ RejectStep) /\ ~isLoading /\ dispatched = 1 =>
          /\ generatedImage' = Null
          /\ history' = <<>>
          /\ storage' = storage]_vars

\* C25: a generate, retry or extend attempt that ends with the quota-exceeded
\* error, and the rejection of a service call, leave the source image, the
\* generated image shown, the prompt and the negative prompt as they were.
C25_NoPartialStateOnFailure ==
    [][(GenerateAction /\ error' = QuotaMessage) \/ RejectStep =>
          UNCHANGED <<originalImage, generatedImage, prompt, negativePrompt>>]_vars

\* C26: the remaining count that gates the generate button agrees with the
\* tracker: whenever the orchestrator is Idle (isLoading false, no call in
\* flight) with a prompt that is not blank and canGenerate() is true, the
\* generate button is enabled.
C26_ButtonAgreesWithTracker ==
    ~isLoading /\ pending = <<>> /\ Trim(prompt) # <<>>
        /\ canGenerate(storage, now).ret
    => ~isGenerateDisabled

====
